---- MODULE Spec2Model ----
(* hecate: the ICY in-band metadata decoder of src/main.rs.                *)
(*                                                                         *)
(* proc_notifier reads an HTTP audio stream chunk by chunk, keeps the      *)
(* unconsumed bytes in a VecDeque and walks the cycle                      *)
(*   SkipAudio(metaint) -> MetaHeader -> CaptureMeta(16*b) -> SkipAudio    *)
(* over it; every non-empty metadata block is decoded by decode_meta and   *)
(* its StreamTitle, if any, is sent to the IRC channel.                    *)
(*                                                                         *)
(* Bytes are the integers 0..255.  A Rust String is modelled as the        *)
(* sequence of its chars (Unicode scalar values); String::from_utf8 is     *)
(* the conversion between the two.                                         *)
EXTENDS Integers, Sequences, FiniteSets, TLC

VARIABLES
    metaint,    \* usize parsed from the icy-metaint header (main.rs:84)
    state,      \* the State enum value (main.rs:89)
    data,       \* the VecDeque<u8> of unconsumed bytes (main.rs:90)
    pc,         \* position of proc_notifier: "await" (line 91) | "drain" (line 94) | "done";
                \* "cancelled" when the runtime dropped the task;
                \* "decode" | "decoded" when decode_meta is run on its own
    result,     \* what proc_notifier returned: "none" | "Ok" | "ErrTransport" | "ErrUtf8" | "ErrSend"
    meta,       \* the String of the last metadata block (main.rs:106)
    record,     \* the HashMap decode_meta built last (main.rs:109)
    sent,       \* the PRIVMSGs accepted by the sender, in order (main.rs:112)
    sinkOpen,   \* whether the receiving end of the sender is still alive
    rest,       \* bytes the HTTP response body has not delivered yet
    sizes,      \* chunk sizes the byte source produces
    last,       \* what stream.next() yielded last: "none" | "chunk" | "end" | "error"
    delivered,  \* history: every byte received so far, in order
    biggest,    \* history: size of the largest chunk received so far
    ndecode,    \* history: number of decode_meta calls made
    consumed,   \* history: every byte removed from the head of data, in order
    markers,    \* history: the length bytes popped in MetaHeader, in order
    mainpc,     \* position of main: "loop" (line 147) | "stats" (line 152) |
                \* "exited" (returned from the loop) | "failed" (returned at line 152)
    replies     \* history: for each stats reply main sent (main.rs:153), the
                \* pc of proc_notifier at that moment

vars == <<metaint, state, data, pc, result, meta, record, sent, sinkOpen,
          rest, sizes, last, delivered, biggest, ndecode, consumed, markers,
          mainpc, replies>>

---------------------------------------------------------------------------
(* Bounds of the model.                                                    *)

MaxMetaint == 2      \* metaint ranges over 0..MaxMetaint
MaxChunk == 2        \* small chunks carry 0..MaxChunk bytes
MaxLen == 5          \* length of the texts decode_meta is enumerated on
MaxReplies == 1      \* stats queries main answers in one run

---------------------------------------------------------------------------
(* Characters and literals of the source.                                  *)

NUL == 0
SP == 32
QUOTE == 39
SEMI == 59
EQUALS == 61

\* "';"  (main.rs:35)
FieldDelim == <<39, 59>>
\* "='"  (main.rs:38, main.rs:39)
KeyValueSep == <<61, 39>>
\* "StreamTitle"  (main.rs:111)
StreamTitle == <<83, 116, 114, 101, 97, 109, 84, 105, 116, 108, 101>>
\* "now playing: "  (main.rs:112)
NowPlayingPrefix == <<110, 111, 119, 32, 112, 108, 97, 121, 105, 110, 103, 58, 32>>
\* "#sleepyfm"  (main.rs:112)
Channel == "#sleepyfm"

\* char::is_whitespace: the Unicode White_Space property, which str::trim strips.
White_Space ==
    (9..13) \cup {32, 133, 160, 5760} \cup (8192..8202)
            \cup {8232, 8233, 8239, 8287, 12288}

Min(S) == CHOOSE x \in S : \A y \in S : x <= y
Max(S) == CHOOSE x \in S : \A y \in S : x >= y

---------------------------------------------------------------------------
(* String::from_utf8 (main.rs:106).                                        *)

IsCont(b) == b >= 128 /\ b <= 191

\* Number of bytes of the scalar value that starts at bytes[i], 0 if the
\* bytes there are not a well-formed UTF-8 sequence.
Utf8Width(bytes, i) ==
    LET n  == Len(bytes)
        b1 == bytes[i]
        b2 == IF i + 1 <= n THEN bytes[i + 1] ELSE 0
        b3 == IF i + 2 <= n THEN bytes[i + 2] ELSE 0
        b4 == IF i + 3 <= n THEN bytes[i + 3] ELSE 0
    IN  IF b1 < 128 THEN 1
        ELSE IF b1 >= 194 /\ b1 <= 223
            THEN (IF IsCont(b2) THEN 2 ELSE 0)
        ELSE IF b1 = 224
            THEN (IF b2 >= 160 /\ b2 <= 191 /\ IsCont(b3) THEN 3 ELSE 0)
        ELSE IF b1 = 237
            THEN (IF b2 >= 128 /\ b2 <= 159 /\ IsCont(b3) THEN 3 ELSE 0)
        ELSE IF b1 >= 225 /\ b1 <= 239
            THEN (IF IsCont(b2) /\ IsCont(b3) THEN 3 ELSE 0)
        ELSE IF b1 = 240
            THEN (IF b2 >= 144 /\ b2 <= 191 /\ IsCont(b3) /\ IsCont(b4) THEN 4 ELSE 0)
        ELSE IF b1 >= 241 /\ b1 <= 243
            THEN (IF IsCont(b2) /\ IsCont(b3) /\ IsCont(b4) THEN 4 ELSE 0)
        ELSE IF b1 = 244
            THEN (IF b2 >= 128 /\ b2 <= 143 /\ IsCont(b3) /\ IsCont(b4) THEN 4 ELSE 0)
        ELSE 0

\* The scalar value encoded by the w bytes at bytes[i].
Utf8Char(bytes, i, w) ==
    IF w = 1 THEN bytes[i]
    ELSE IF w = 2 THEN (bytes[i] - 192) * 64 + (bytes[i + 1] - 128)
    ELSE IF w = 3 THEN (bytes[i] - 224) * 4096 + (bytes[i + 1] - 128) * 64
                       + (bytes[i + 2] - 128)
    ELSE (bytes[i] - 240) * 262144 + (bytes[i + 1] - 128) * 4096
         + (bytes[i + 2] - 128) * 64 + (bytes[i + 3] - 128)

RECURSIVE Utf8From(_, _)
Utf8From(bytes, i) ==
    IF i > Len(bytes) THEN [ok |-> TRUE, chars |-> <<>>]
    ELSE LET w == Utf8Width(bytes, i)
         IN  IF w = 0 THEN [ok |-> FALSE, chars |-> <<>>]
             ELSE LET tl == Utf8From(bytes, i + w)
                  IN  [ok |-> tl.ok,
                       chars |-> <<Utf8Char(bytes, i, w)>> \o tl.chars]

\* String::from_utf8_lossy: never fails, U+FFFD for what is not ASCII
from_utf8_lossy(bytes) ==
    [ok |-> TRUE,
     chars |-> [i \in 1..Len(bytes) |-> IF bytes[i] < 128 THEN bytes[i] ELSE 65533]]

\* a C-string conversion: an interior NUL is an error
from_utf8_no_nul(bytes) ==
    IF \E i \in 1..Len(bytes) : bytes[i] = 0
    THEN [ok |-> FALSE, chars |-> <<>>]
    ELSE [ok |-> TRUE, chars |-> bytes]

\* Ok(String) is [ok |-> TRUE, chars |-> the chars]; Err is [ok |-> FALSE].
\* An all-ASCII input is its own char sequence.
from_utf8(bytes) ==
    IF \A i \in 1..Len(bytes) : bytes[i] < 128
    THEN [ok |-> TRUE, chars |-> bytes]
    ELSE Utf8From(bytes, 1)

---------------------------------------------------------------------------
(* decode_meta (main.rs:33-46).                                            *)

\* Start positions of the occurrences of pat in s.
Matches(s, pat) ==
    {i \in 1..(Len(s) - Len(pat) + 1) : SubSeq(s, i, i + Len(pat) - 1) = pat}

\* str::contains
contains(s, pat) == Matches(s, pat) # {}

\* str::split: the pieces between the non-overlapping occurrences of pat,
\* found left to right; n occurrences give n + 1 pieces.
RECURSIVE SplitFrom(_, _, _)
SplitFrom(s, pat, from) ==
    LET ms == {i \in Matches(s, pat) : i >= from}
    IN  IF ms = {} THEN <<SubSeq(s, from, Len(s))>>
        ELSE <<SubSeq(s, from, Min(ms) - 1)>>
             \o SplitFrom(s, pat, Min(ms) + Len(pat))

split(s, pat) == SplitFrom(s, pat, 1)

\* s without its leading and trailing chars that are in strip.
TrimBy(s, strip) ==
    IF \A i \in 1..Len(s) : s[i] \in strip THEN <<>>
    ELSE LET open  == CHOOSE i \in 1..Len(s) :
                         /\ s[i] \notin strip
                         /\ \A j \in 1..(i - 1) : s[j] \in strip
             close == CHOOSE i \in 1..Len(s) :
                         /\ s[i] \notin strip
                         /\ \A j \in (i + 1)..Len(s) : s[j] \in strip
         IN  SubSeq(s, open, close)

\* str::trim
trim(s) == TrimBy(s, White_Space)

\* str::trim_matches(c)
trim_matches(s, c) == TrimBy(s, {c})

\* |s| s.trim().trim_matches('\0')   (main.rs:36)
TrimSegment(s) == trim_matches(trim(s), NUL)

\* the two filters (main.rs:37-38)
KeepSegment(s) == s # <<>> /\ contains(s, KeyValueSep)

\* s.splitn(2, "='") and the two next() calls (main.rs:39-44): the key is
\* the text before the first "='", the value everything after it.
KeyValue(s) ==
    LET i == Min(Matches(s, KeyValueSep))
    IN  [k |-> SubSeq(s, 1, i - 1),
         v |-> SubSeq(s, i + Len(KeyValueSep), Len(s))]

\* a collect() that keeps the first pair of each key
CollectFirstWins(pairs) ==
    LET keys == {pairs[i].k : i \in 1..Len(pairs)}
    IN  [key \in keys |->
            pairs[Min({i \in 1..Len(pairs) : pairs[i].k = key})].v]

\* collect() into a HashMap: a later pair overwrites an earlier one with
\* the same key (main.rs:45).
Collect(pairs) ==
    LET keys == {pairs[i].k : i \in 1..Len(pairs)}
    IN  [key \in keys |->
            pairs[Max({i \in 1..Len(pairs) : pairs[i].k = key})].v]

decode_meta(m) ==
    LET segs    == split(m, FieldDelim)
        trimmed == [i \in 1..Len(segs) |-> TrimSegment(segs[i])]
        kept    == SelectSeq(trimmed, KeepSegment)
        pairs   == [i \in 1..Len(kept) |-> KeyValue(kept[i])]
    IN  Collect(pairs)

---------------------------------------------------------------------------
(* enum State and State::bytes_to_consume (main.rs:18-31).                 *)

SkipAudio(n) == [tag |-> "SkipAudio", n |-> n]
MetaHeader == [tag |-> "MetaHeader"]
CaptureMeta(n) == [tag |-> "CaptureMeta", n |-> n]

\* n - 1 in place of n for SkipAudio(n) and CaptureMeta(n)
bytes_to_consume_less_one(s) ==
    IF s.tag = "MetaHeader" THEN 1 ELSE IF s.n > 0 THEN s.n - 1 ELSE 0

bytes_to_consume(s) ==
    IF s.tag = "MetaHeader" THEN 1 ELSE s.n

---------------------------------------------------------------------------
(* proc_notifier (main.rs:78-123).                                         *)

\* data = chunk.into(): the bytes still buffered are lost
ExtendOverwrites(d, chunk) == chunk

\* the chunk put in front of the bytes still buffered
ExtendAtFront(d, chunk) == chunk \o d

\* data.extend(chunk)   (main.rs:93)
Extend(d, chunk) == d \o chunk

\* the condition of the inner while loop (main.rs:94)
CanConsume(d, s) == Len(d) >= bytes_to_consume(s)

\* data.drain(1..n): the first byte stays in the buffer
DrainedOneShort(d, n) == IF n = 0 THEN d ELSE SubSeq(d, n, Len(d))

\* what is left of d after data.drain(0..n)
Drained(d, n) == SubSeq(d, n + 1, Len(d))

\* the bytes data.drain(0..n) yields
Front(d, n) == SubSeq(d, 1, n)

\* the length byte counted as part of the block
MetaLengthCountsItself(b) == (b + 1) * 16

\* data.pop_front().unwrap() * 16 computed in u8
MetaLengthWraps(b) == (b * 16) % 256

\* the length byte taken as a count of bytes
MetaLengthInBytes(b) == b

\* data.pop_front().unwrap() as usize * 16   (main.rs:102)
MetaLength(b) == b * 16

\* format!("now playing: {:?}", title): the title in double quotes
NowPlayingDebug(title) == NowPlayingPrefix \o <<34>> \o title \o <<34>>

\* format!("now playing: {}", title)   (main.rs:112)
NowPlaying(title) == NowPlayingPrefix \o title

\* stream.next() yields Some(Ok(chunk)): the chunk is appended and the
\* inner loop is entered (main.rs:91-94).
RecvChunk ==
    /\ pc = "await"
    /\ \E k \in sizes \cup {Len(rest)} :
        /\ k <= Len(rest)
        /\ data' = Extend(data, SubSeq(rest, 1, k))
        /\ delivered' = delivered \o SubSeq(rest, 1, k)
        /\ biggest' = IF k > biggest THEN k ELSE biggest
        /\ rest' = SubSeq(rest, k + 1, Len(rest))
    /\ pc' = "drain"
    /\ last' = "chunk"
    /\ UNCHANGED <<metaint, state, result, meta, record, sent, sinkOpen, sizes,
                   ndecode,
                   consumed, markers, mainpc, replies>>

\* a stream that ends inside a frame is reported as an error
EndOfStreamMidFrameFails ==
    /\ pc = "await"
    /\ pc' = "done"
    /\ last' = "end"
    /\ result' = IF data = <<>> THEN "Ok" ELSE "ErrTransport"
    /\ UNCHANGED <<metaint, state, data, meta, record, sent, sinkOpen,
                   rest, sizes, delivered, biggest, ndecode,
                   consumed, markers, mainpc, replies>>

\* stream.next() yields None: the outer loop ends, Ok(()) (main.rs:91, 122).
EndOfStream ==
    /\ pc = "await"
    /\ pc' = "done"
    /\ last' = "end"
    /\ result' = "Ok"
    /\ UNCHANGED <<metaint, state, data, meta, record, sent, sinkOpen,
                   rest, sizes, delivered, biggest, ndecode,
                   consumed, markers, mainpc, replies>>

\* stream.next() yields Some(Err(e)): transpose()? returns it (main.rs:91).
TransportError ==
    /\ pc = "await"
    /\ pc' = "done"
    /\ last' = "error"
    /\ result' = "ErrTransport"
    /\ UNCHANGED <<metaint, state, data, meta, record, sent, sinkOpen,
                   rest, sizes, delivered, biggest, ndecode,
                   consumed, markers, mainpc, replies>>

\* a SkipAudio arm that checks the audio for the frame sync byte 0xFF and
\* returns an error on anything else
SkipAudioStepValidates ==
    /\ pc = "drain"
    /\ state.tag = "SkipAudio"
    /\ CanConsume(data, state)
    /\ data' = Drained(data, state.n)
    /\ consumed' = consumed \o Front(data, state.n)
    /\ IF \A i \in 1..state.n : data[i] = 255
       THEN state' = MetaHeader /\ UNCHANGED <<pc, result>>
       ELSE pc' = "done" /\ result' = "ErrUtf8" /\ UNCHANGED state
    /\ UNCHANGED <<metaint, meta, record, sent, sinkOpen,
                   rest, sizes, last,
                   delivered, biggest, ndecode,
                   markers, mainpc, replies>>

\* State::SkipAudio(n) arm (main.rs:96-99)
SkipAudioStep ==
    /\ pc = "drain"
    /\ state.tag = "SkipAudio"
    /\ CanConsume(data, state)
    /\ data' = Drained(data, state.n)
    /\ consumed' = consumed \o Front(data, state.n)
    /\ state' = MetaHeader
    /\ UNCHANGED <<metaint, pc, result, meta, record, sent, sinkOpen,
                   rest, sizes, last,
                   delivered, biggest, ndecode,
                   markers, mainpc, replies>>

\* a MetaHeader arm that reads the length byte with front() and leaves it
\* in the buffer
MetaHeaderStepPeeks ==
    /\ pc = "drain"
    /\ state.tag = "MetaHeader"
    /\ CanConsume(data, state)
    /\ state' = CaptureMeta(MetaLength(Head(data)))
    /\ UNCHANGED <<metaint, data, pc, result, meta, record, sent, sinkOpen,
                   rest, sizes, last,
                   delivered, biggest, ndecode,
                   consumed, markers, mainpc, replies>>

\* State::MetaHeader arm (main.rs:101-103)
MetaHeaderStep ==
    /\ pc = "drain"
    /\ state.tag = "MetaHeader"
    /\ CanConsume(data, state)
    /\ state' = CaptureMeta(MetaLength(Head(data)))
    /\ data' = Tail(data)
    /\ consumed' = Append(consumed, Head(data))
    /\ markers' = Append(markers, Head(data))
    /\ UNCHANGED <<metaint, pc, result, meta, record, sent, sinkOpen,
                   rest, sizes, last,
                   delivered, biggest, ndecode,
                   mainpc, replies>>

\* State::CaptureMeta(n) arm, String::from_utf8 fails: the ? returns the
\* error out of proc_notifier (main.rs:106).
CaptureMetaInvalid ==
    /\ pc = "drain"
    /\ state.tag = "CaptureMeta"
    /\ CanConsume(data, state)
    /\ ~from_utf8(Front(data, state.n)).ok
    /\ data' = Drained(data, state.n)
    /\ consumed' = consumed \o Front(data, state.n)
    /\ pc' = "done"
    /\ result' = "ErrUtf8"
    /\ UNCHANGED <<metaint, state, meta, record, sent, sinkOpen,
                   rest, sizes, last,
                   delivered, biggest, ndecode,
                   markers, mainpc, replies>>

\* State::CaptureMeta(n) arm, meta.len() == 0 (main.rs:106-108, 116)
CaptureMetaEmpty ==
    /\ pc = "drain"
    /\ state.tag = "CaptureMeta"
    /\ CanConsume(data, state)
    /\ from_utf8(Front(data, state.n)).ok
    /\ ~(Len(Front(data, state.n)) > 0)
    /\ data' = Drained(data, state.n)
    /\ consumed' = consumed \o Front(data, state.n)
    /\ meta' = from_utf8(Front(data, state.n)).chars
    /\ state' = SkipAudio(metaint)
    /\ UNCHANGED <<metaint, pc, result, record, sent, sinkOpen,
                   rest, sizes, last,
                   delivered, biggest, ndecode,
                   markers, mainpc, replies>>

\* State::CaptureMeta(n) arm, the block decodes to a map without the key
\* "StreamTitle" (main.rs:106-111, 116)
CaptureMetaNoTitle ==
    /\ pc = "drain"
    /\ state.tag = "CaptureMeta"
    /\ CanConsume(data, state)
    /\ from_utf8(Front(data, state.n)).ok
    /\ Len(Front(data, state.n)) > 0
    /\ meta' = from_utf8(Front(data, state.n)).chars
    /\ record' = decode_meta(meta')
    /\ ndecode' = ndecode + 1
    /\ StreamTitle \notin DOMAIN record'
    /\ data' = Drained(data, state.n)
    /\ consumed' = consumed \o Front(data, state.n)
    /\ state' = SkipAudio(metaint)
    /\ UNCHANGED <<metaint, pc, result, sent, sinkOpen, rest, sizes, last,
                   delivered, biggest,
                   markers, mainpc, replies>>

\* State::CaptureMeta(n) arm, the map has a "StreamTitle" and
\* send_privmsg succeeds (main.rs:106-116)
CaptureMetaTitle ==
    /\ pc = "drain"
    /\ state.tag = "CaptureMeta"
    /\ CanConsume(data, state)
    /\ from_utf8(Front(data, state.n)).ok
    /\ Len(Front(data, state.n)) > 0
    /\ sinkOpen
    /\ meta' = from_utf8(Front(data, state.n)).chars
    /\ record' = decode_meta(meta')
    /\ ndecode' = ndecode + 1
    /\ StreamTitle \in DOMAIN record'
    /\ sent' = Append(sent, [tgt |-> Channel,
                             msg |-> NowPlaying(record'[StreamTitle])])
    /\ data' = Drained(data, state.n)
    /\ consumed' = consumed \o Front(data, state.n)
    /\ state' = SkipAudio(metaint)
    /\ UNCHANGED <<metaint, pc, result, sinkOpen, rest, sizes, last,
                   delivered, biggest,
                   markers, mainpc, replies>>

\* State::CaptureMeta(n) arm, the map has a "StreamTitle" and
\* send_privmsg fails: the ? returns the error (main.rs:112)
CaptureMetaSendFails ==
    /\ pc = "drain"
    /\ state.tag = "CaptureMeta"
    /\ CanConsume(data, state)
    /\ from_utf8(Front(data, state.n)).ok
    /\ Len(Front(data, state.n)) > 0
    /\ ~sinkOpen
    /\ meta' = from_utf8(Front(data, state.n)).chars
    /\ record' = decode_meta(meta')
    /\ ndecode' = ndecode + 1
    /\ StreamTitle \in DOMAIN record'
    /\ data' = Drained(data, state.n)
    /\ consumed' = consumed \o Front(data, state.n)
    /\ pc' = "done"
    /\ result' = "ErrSend"
    /\ UNCHANGED <<metaint, state, sent, sinkOpen, rest, sizes, last,
                   delivered, biggest,
                   markers, mainpc, replies>>

\* the inner loop left at any point, whatever is in the buffer
DrainExitEarly ==
    /\ pc = "drain"
    /\ pc' = "await"
    /\ UNCHANGED <<metaint, state, data, result, meta, record, sent, sinkOpen,
                   rest, sizes, last,
                   delivered, biggest, ndecode,
                   consumed, markers, mainpc, replies>>

\* the inner while condition is false: back to stream.next().await
\* (main.rs:94, 91)
DrainExit ==
    /\ pc = "drain"
    /\ ~CanConsume(data, state)
    /\ pc' = "await"
    /\ UNCHANGED <<metaint, state, data, result, meta, record, sent, sinkOpen,
                   rest, sizes, last,
                   delivered, biggest, ndecode,
                   consumed, markers, mainpc, replies>>

\* The receiving half of the sender goes away: the IRC stream ends or fails,
\* main returns and drops the client stream (main.rs:142-164); later sends
\* fail.
SinkClosed ==
    /\ mainpc = "loop"
    /\ sinkOpen
    /\ sinkOpen' = FALSE
    /\ mainpc' = "exited"
    /\ UNCHANGED <<metaint, state, data, pc, result, meta, record, sent,
                   rest, sizes, last,
                   delivered, biggest, ndecode,
                   consumed, markers, replies>>

\* A PRIVMSG that matches RE_CURRENT_STATS arrives: main awaits get_stats()
\* (main.rs:147-152).  The number of queries is bounded by MaxReplies.
MainStatsQuery ==
    /\ mainpc = "loop"
    /\ Len(replies) < MaxReplies
    /\ mainpc' = "stats"
    /\ UNCHANGED <<metaint, state, data, pc, result, meta, record, sent,
                   sinkOpen, rest, sizes, last, delivered, biggest, ndecode,
                   consumed, markers, replies>>

\* the reply can be sent only while proc_notifier is alive
MainStatsReplyNeedsNotifier ==
    /\ mainpc = "stats"
    /\ sinkOpen
    /\ pc # "done"
    /\ replies' = Append(replies, pc)
    /\ mainpc' = "loop"
    /\ UNCHANGED <<metaint, state, data, pc, result, meta, record, sent,
                   sinkOpen, rest, sizes, last, delivered, biggest, ndecode,
                   consumed, markers>>

\* get_stats() returned Ok: the reply is sent on the shared sender, whose
\* receiving half main itself keeps alive, and the loop goes on
\* (main.rs:152-153, 147).
MainStatsReply ==
    /\ mainpc = "stats"
    /\ sinkOpen
    /\ replies' = Append(replies, pc)
    /\ mainpc' = "loop"
    /\ UNCHANGED <<metaint, state, data, pc, result, meta, record, sent,
                   sinkOpen, rest, sizes, last, delivered, biggest, ndecode,
                   consumed, markers>>

\* get_stats() returned Err: the ? makes main return, which drops the IRC
\* client stream (main.rs:152).
MainStatsFails ==
    /\ mainpc = "stats"
    /\ mainpc' = "failed"
    /\ sinkOpen' = FALSE
    /\ UNCHANGED <<metaint, state, data, pc, result, meta, record, sent,
                   rest, sizes, last, delivered, biggest, ndecode,
                   consumed, markers, replies>>

\* an abort of the task at any await, while main still runs
ShutdownWhileMainRuns ==
    /\ pc = "await"
    /\ pc' = "cancelled"
    /\ UNCHANGED <<metaint, state, data, result, meta, record, sent,
                   sinkOpen, rest, sizes, last, delivered, biggest, ndecode,
                   consumed, markers, mainpc, replies>>

\* main has returned and the tokio runtime is shut down: the spawned task
\* is dropped at its await point (main.rs:125-126, 145, 91).
Shutdown ==
    /\ mainpc \in {"exited", "failed"}
    /\ pc = "await"
    /\ pc' = "cancelled"
    /\ UNCHANGED <<metaint, state, data, result, meta, record, sent,
                   sinkOpen, rest, sizes, last, delivered, biggest, ndecode,
                   consumed, markers, mainpc, replies>>

\* decode_meta applied to a String on its own
DecodeMeta ==
    /\ pc = "decode"
    /\ record' = decode_meta(meta)
    /\ ndecode' = ndecode + 1
    /\ pc' = "decoded"
    /\ UNCHANGED <<metaint, state, data, result, meta, sent, sinkOpen,
                   rest, sizes, last,
                   delivered, biggest,
                   consumed, markers, mainpc, replies>>

---------------------------------------------------------------------------
(* The byte streams the HTTP response body is drawn from.                  *)

\* "StreamTitle='A';"
TitleA == <<83, 116, 114, 101, 97, 109, 84, 105, 116, 108, 101, 61, 39, 65, 39, 59>>
\* "StreamTitle='B';"
TitleB == <<83, 116, 114, 101, 97, 109, 84, 105, 116, 108, 101, 61, 39, 66, 39, 59>>
\* "StreamUrl='u';"
UrlOnly == <<83, 116, 114, 101, 97, 109, 85, 114, 108, 61, 39, 117, 39, 59>>
\* "StreamTitle='", the byte 0xFF, "';": not UTF-8
InvalidTitle == <<83, 116, 114, 101, 97, 109, 84, 105, 116, 108, 101, 61, 39, 255, 39, 59>>
\* the continuation byte 0x80, "StreamTitle='A';": not UTF-8
LoneContinuation == <<128>> \o TitleA
\* "StreamTitle='AB", the lead byte 0xC3 with nothing after it: not UTF-8
TruncatedChar == <<83, 116, 114, 101, 97, 109, 84, 105, 116, 108, 101, 61, 39, 65, 66>> \o <<195>>
\* U+00A0 (0xC2 0xA0), "StreamTitle='A';"
NbspTitle == <<194, 160>> \o TitleA
\* "StreamTitle='Artist - Song';StreamUrl='http://x'"
ArtistSongUrl == <<83, 116, 114, 101, 97, 109, 84, 105, 116, 108, 101, 61, 39, 65, 114, 116, 105, 115, 116, 32, 45, 32, 83, 111, 110, 103, 39, 59, 83, 116, 114, 101, 97, 109, 85, 114, 108, 61, 39, 104, 116, 116, 112, 58, 47, 47, 120, 39>>
\* "garbage;StreamTitle='Song'"
GarbageSong == <<103, 97, 114, 98, 97, 103, 101, 59, 83, 116, 114, 101, 97, 109, 84, 105, 116, 108, 101, 61, 39, 83, 111, 110, 103, 39>>
\* "Artist - Song", "http://x", "StreamUrl", "Song"
ArtistSong == <<65, 114, 116, 105, 115, 116, 32, 45, 32, 83, 111, 110, 103>>
HttpX == <<104, 116, 116, 112, 58, 47, 47, 120>>
StreamUrl == <<83, 116, 114, 101, 97, 109, 85, 114, 108>>
Song == <<83, 111, 110, 103>>

Nuls(n) == [i \in 1..n |-> NUL]

\* A metadata block is padded with NULs to a multiple of 16 bytes and
\* preceded by its length in 16-byte units.
Pad16(bytes) == bytes \o Nuls((16 - (Len(bytes) % 16)) % 16)
Block(bytes) == <<Len(Pad16(bytes)) \div 16>> \o Pad16(bytes)
Audio(m) == [i \in 1..m |-> 255]
Frame(m, bytes) == Audio(m) \o Block(bytes)

\* The first stream of Inputs with other audio bytes: a would-be length
\* byte 1 in the first frame, a quote in the second.
OtherAudio(m) == [i \in 1..m |-> 1] \o Block(TitleA)
                 \o [i \in 1..m |-> QUOTE] \o Block(TitleB)

Inputs(m) ==
    { Frame(m, TitleA) \o Frame(m, TitleB),
      Frame(m, <<>>) \o Frame(m, <<>>) \o Frame(m, TitleA),
      Frame(m, Nuls(16)) \o Frame(m, TitleB),
      Frame(m, TitleA) \o Frame(m, InvalidTitle) \o Frame(m, TitleB),
      Frame(m, UrlOnly) \o Frame(m, TitleA) \o Frame(m, <<>>),
      Frame(m, LoneContinuation) \o Frame(m, TitleA),
      Frame(m, TitleB) \o Frame(m, TruncatedChar),
      Frame(m, NbspTitle),
      Frame(m, ArtistSongUrl),
      OtherAudio(m) }

\* The streams the decoder is given while main runs beside it.
SysInputs(m) ==
    { Frame(m, TitleA) \o Frame(m, TitleB),
      Frame(m, TitleA) \o Frame(m, InvalidTitle) \o Frame(m, TitleB),
      Frame(m, UrlOnly) \o Frame(m, TitleA) \o Frame(m, <<>>) }

\* A stream whose first block has the largest length byte, 255.
BigInput(m) == Audio(m) \o <<255>> \o TitleA \o Nuls(255 * 16 - Len(TitleA))
               \o Frame(m, TitleB)

\* Chunk sizes used to deliver BigInput.
BigChunk == 256

\* "k='k';k='';k='kk';": the key k three times
RepeatedKey == <<107, 61, 39, 107, 39, 59, 107, 61, 39, 39, 59,
                 107, 61, 39, 107, 107, 39, 59>>

\* The texts decode_meta is enumerated on: every text of at most MaxLen
\* chars over Alphabet, and the examples of the documentation.
Alphabet == {NUL, SP, QUOTE, SEMI, EQUALS, 107}

Texts ==
    UNION {[1..n -> Alphabet] : n \in 0..MaxLen}
        \cup {ArtistSongUrl, GarbageSong, TitleA \o TitleB, Nuls(16),
              Pad16(UrlOnly), TitleB \o UrlOnly \o TitleA, RepeatedKey}

---------------------------------------------------------------------------
(* Specifications.                                                         *)

\* proc_notifier right after line 90, about to await the first chunk.
Init ==
    /\ metaint \in 0..MaxMetaint
    /\ state = SkipAudio(metaint)
    /\ data = <<>>
    /\ pc = "await"
    /\ result = "none"
    /\ meta = <<>>
    /\ record = <<>>
    /\ sent = <<>>
    /\ sinkOpen = TRUE
    /\ \/ rest \in Inputs(metaint) /\ sizes = 0..MaxChunk
       \/ rest = BigInput(metaint) /\ sizes = {BigChunk - 1, BigChunk}
    /\ last = "none"
    /\ delivered = <<>>
    /\ biggest = 0
    /\ ndecode = 0
    /\ consumed = <<>>
    /\ markers = <<>>
    /\ mainpc = "loop"
    /\ replies = <<>>

Next ==
    \/ RecvChunk
    \/ EndOfStream
    \/ TransportError
    \/ SkipAudioStep
    \/ MetaHeaderStep
    \/ CaptureMetaInvalid
    \/ CaptureMetaEmpty
    \/ CaptureMetaNoTitle
    \/ CaptureMetaTitle
    \/ CaptureMetaSendFails
    \/ DrainExit
    \/ SinkClosed

Spec == Init /\ [][Next]_vars

\* main and the spawned proc_notifier side by side (main.rs:125-165): the
\* decoder of Spec, main's message loop answering stats queries on the same
\* sender, and the runtime shutdown that follows main's return.
InitSys ==
    /\ metaint \in 0..MaxMetaint
    /\ state = SkipAudio(metaint)
    /\ data = <<>>
    /\ pc = "await"
    /\ result = "none"
    /\ meta = <<>>
    /\ record = <<>>
    /\ sent = <<>>
    /\ sinkOpen = TRUE
    /\ rest \in SysInputs(metaint)
    /\ sizes = 0..MaxChunk
    /\ last = "none"
    /\ delivered = <<>>
    /\ biggest = 0
    /\ ndecode = 0
    /\ consumed = <<>>
    /\ markers = <<>>
    /\ mainpc = "loop"
    /\ replies = <<>>

NextSys ==
    \/ RecvChunk
    \/ EndOfStream
    \/ TransportError
    \/ SkipAudioStep
    \/ MetaHeaderStep
    \/ CaptureMetaInvalid
    \/ CaptureMetaEmpty
    \/ CaptureMetaNoTitle
    \/ CaptureMetaTitle
    \/ CaptureMetaSendFails
    \/ DrainExit
    \/ SinkClosed
    \/ MainStatsQuery
    \/ MainStatsReply
    \/ MainStatsFails
    \/ Shutdown

SpecSys == InitSys /\ [][NextSys]_vars

\* decode_meta on its own, over Texts.
InitDecode ==
    /\ metaint = 0
    /\ state = SkipAudio(0)
    /\ data = <<>>
    /\ pc = "decode"
    /\ result = "none"
    /\ meta \in Texts
    /\ record = <<>>
    /\ sent = <<>>
    /\ sinkOpen = TRUE
    /\ rest = <<>>
    /\ sizes = {}
    /\ last = "none"
    /\ delivered = <<>>
    /\ biggest = 0
    /\ ndecode = 0
    /\ consumed = <<>>
    /\ markers = <<>>
    /\ mainpc = "loop"
    /\ replies = <<>>

NextDecode == DecodeMeta

SpecDecode == InitDecode /\ [][NextDecode]_vars

---------------------------------------------------------------------------
(* Properties.                                                             *)

\* The notification line 112 sends for a title.
Notification(title) == [tgt |-> Channel, msg |-> NowPlaying(title)]

Terminated == pc = "done"

\* The drain loop of lines 94-119 run to its end on buffer d from state s:
\* what proc_notifier does with a chunk, as a function.
RECURSIVE Drain(_, _, _, _)
Drain(m, s, d, out) ==
    IF ~CanConsume(d, s)
    THEN [state |-> s, data |-> d, sent |-> out, result |-> "none"]
    ELSE IF s.tag = "SkipAudio"
    THEN Drain(m, MetaHeader, Drained(d, s.n), out)
    ELSE IF s.tag = "MetaHeader"
    THEN Drain(m, CaptureMeta(MetaLength(Head(d))), Tail(d), out)
    ELSE LET u == from_utf8(Front(d, s.n))
             r == IF Len(Front(d, s.n)) > 0 THEN decode_meta(u.chars) ELSE <<>>
         IN  IF ~u.ok
             THEN [state |-> s, data |-> Drained(d, s.n), sent |-> out,
                   result |-> "ErrUtf8"]
             ELSE Drain(m, SkipAudio(m), Drained(d, s.n),
                        IF StreamTitle \in DOMAIN r
                        THEN Append(out, Notification(r[StreamTitle]))
                        ELSE out)

\* The byte sequence bytes delivered as one single chunk.
SingleChunk(m, bytes) == Drain(m, SkipAudio(m), bytes, <<>>)

IsPrefix(p, q) == Len(p) <= Len(q) /\ p = SubSeq(q, 1, Len(p))

\* C1: chunk-boundary invariance.  For metaint > 0, when proc_notifier has
\* returned, the notifications it sent and its outcome are those of the
\* delivery of the same bytes as one single chunk, whatever the chunk
\* boundaries were; if the sender failed first, the notifications are the
\* ones of the single-chunk delivery up to the failed send.
ChunkBoundaryInvariance ==
    (Terminated /\ metaint > 0) =>
        LET one == SingleChunk(metaint, delivered)
        IN  IF result = "ErrSend"
            THEN IsPrefix(sent, one.sent) /\ Len(sent) < Len(one.sent)
            ELSE /\ sent = one.sent
                 /\ result = IF one.result = "ErrUtf8" THEN "ErrUtf8"
                             ELSE IF last = "end" THEN "Ok"
                             ELSE "ErrTransport"

\* Two titles were sent from a stream that arrived one byte at a time.
ChunkBoundaryWitness ==
    /\ Terminated
    /\ metaint > 0
    /\ result = "Ok"
    /\ Len(sent) = 2
    /\ biggest = 1

\* C2: a length byte of 0 leads from MetaHeader to CaptureMeta(0) and from
\* there, without waiting for a chunk and without consuming a byte, to
\* SkipAudio(metaint); nothing is decoded or sent on the way, and the next
\* state change drops exactly metaint bytes and reaches MetaHeader.
ZeroLengthBlock ==
    [][ /\ (state = MetaHeader /\ state' # state /\ Head(data) = 0) =>
               /\ state' = CaptureMeta(0)
               /\ data' = Tail(data)
               /\ UNCHANGED <<sent, ndecode, result>>
        /\ (state = CaptureMeta(0)) =>
               /\ pc = "drain"
               /\ state' \in {state, SkipAudio(metaint)}
               /\ UNCHANGED <<data, pc, sent, ndecode, record, result>>
        /\ (state = SkipAudio(metaint) /\ state' # state) =>
               /\ state' = MetaHeader
               /\ Len(data) >= metaint
               /\ data' = SubSeq(data, metaint + 1, Len(data))
               /\ UNCHANGED <<sent, ndecode, result>>
      ]_vars

\* Two empty blocks were passed and the title of the third frame was sent.
ZeroLengthBlockWitness ==
    /\ Terminated
    /\ result = "Ok"
    /\ metaint > 0
    /\ delivered = Frame(metaint, <<>>) \o Frame(metaint, <<>>)
                   \o Frame(metaint, TitleA)
    /\ ndecode = 1
    /\ sent = <<Notification(<<65>>)>>

\* C3 (as stated): decoding "StreamTitle='Artist - Song';StreamUrl='http://x'"
\* yields exactly {StreamTitle: "Artist - Song", StreamUrl: "http://x"}.
DecodesQuotedFields ==
    (pc = "decoded" /\ meta = ArtistSongUrl) =>
        record = (StreamTitle :> ArtistSong) @@ (StreamUrl :> HttpX)

\* C4 (as stated): decoding "garbage;StreamTitle='Song'" yields exactly
\* {StreamTitle: "Song"}.
DropsMalformedSegment ==
    (pc = "decoded" /\ meta = GarbageSong) =>
        record = (StreamTitle :> Song)

\* Bytes that are not UTF-8 whatever surrounds them: a byte that occurs in
\* no UTF-8 sequence, a continuation byte at the start, a lead byte at the
\* end.
NotText(bytes) ==
    /\ bytes # <<>>
    /\ \/ \E i \in 1..Len(bytes) : bytes[i] \in {192, 193} \cup (245..255)
       \/ bytes[1] \in 128..191
       \/ bytes[Len(bytes)] >= 192

\* What proc_notifier itself owns.
task == <<state, data, pc, result, meta, record, sent, ndecode>>

\* C5: when the bytes of a complete metadata block are not valid text, the
\* CaptureMeta transition makes proc_notifier return an error without
\* decoding or sending anything, what was sent before stays as it is, and
\* nothing happens in proc_notifier afterwards.
InvalidEncodingAborts ==
    [][ /\ ( /\ pc = "drain"
             /\ state.tag = "CaptureMeta"
             /\ Len(data) >= state.n
             /\ NotText(SubSeq(data, 1, state.n))
             /\ task' # task ) =>
               /\ pc' = "done"
               /\ result' = "ErrUtf8"
               /\ UNCHANGED <<sent, ndecode, record>>
        /\ (result = "ErrUtf8") => UNCHANGED <<task, delivered>>
      ]_vars

\* The block after "StreamTitle='A';" was not text: A was sent, the run
\* failed and the frames behind the bad block were never looked at.
InvalidEncodingWitness ==
    /\ result = "ErrUtf8"
    /\ sent = <<Notification(<<65>>)>>
    /\ ndecode = 1
    /\ Len(data) + Len(rest) > 0

\* C6: a length byte of 255 gives CaptureMeta(4080); with fewer than 4080
\* bytes buffered that state is kept, the buffer only grows, nothing is
\* decoded or sent and no decode or send error is raised; the state is
\* left only with at least 4080 bytes buffered, of which 4080 are removed.
LengthByte255 ==
    [][ /\ (state = MetaHeader /\ state' # state /\ Head(data) = 255) =>
               state' = CaptureMeta(255 * 16)
        /\ (state = CaptureMeta(255 * 16) /\ Len(data) < 255 * 16) =>
               /\ state' = state
               /\ IsPrefix(data, data')
               /\ UNCHANGED <<sent, ndecode>>
               /\ result' \in {"none", "Ok", "ErrTransport"}
        /\ (state = CaptureMeta(255 * 16) /\ state' # state) =>
               /\ Len(data) >= 255 * 16
               /\ data' = SubSeq(data, 255 * 16 + 1, Len(data))
      ]_vars

\* The machine waits in CaptureMeta(4080) less than one chunk short of
\* the whole block.
LengthByte255Witness ==
    /\ state = CaptureMeta(255 * 16)
    /\ pc = "await"
    /\ Len(data) < 255 * 16
    /\ Len(data) >= 255 * 16 - BigChunk

\* The titles of the stream s, found by position: the k-th frame starts
\* right after the (k-1)-th, its length byte b lies metaint bytes further
\* and its block is the 16*b bytes after that.  Reading stops at the first
\* frame that is incomplete or whose block is not text.
RECURSIVE TitlesFrom(_, _, _)
TitlesFrom(m, s, o) ==
    IF Len(s) < o + m + 1 THEN <<>>
    ELSE LET n     == 16 * s[o + m + 1]
             block == SubSeq(s, o + m + 2, o + m + 1 + n)
         IN  IF Len(s) < o + m + 1 + n \/ ~from_utf8(block).ok THEN <<>>
             ELSE LET r == decode_meta(from_utf8(block).chars)
                  IN  (IF n > 0 /\ StreamTitle \in DOMAIN r
                       THEN <<r[StreamTitle]>> ELSE <<>>)
                      \o TitlesFrom(m, s, o + m + 1 + n)

TitlesOf(m, s) == TitlesFrom(m, s, 0)

\* C7: whenever proc_notifier waits for a chunk or has returned (and no
\* send has failed), the k-th notification sent carries the title of the
\* k-th metadata block of the bytes received that has a StreamTitle; two
\* full cycles with the titles A and B give exactly "now playing: A" and
\* then "now playing: B".
TitlesInStreamOrder ==
    (pc \in {"await", "done"} /\ result # "ErrSend") =>
        /\ Len(sent) = Len(TitlesOf(metaint, delivered))
        /\ \A k \in 1..Len(sent) :
               sent[k] = Notification(TitlesOf(metaint, delivered)[k])
        /\ (delivered = Frame(metaint, TitleA) \o Frame(metaint, TitleB)) =>
               sent = <<Notification(<<65>>), Notification(<<66>>)>>

\* The two cycles A, B were received and both titles were sent, A first.
TitlesInStreamOrderWitness ==
    /\ pc = "await"
    /\ metaint > 0
    /\ delivered = Frame(metaint, TitleA) \o Frame(metaint, TitleB)
    /\ sent = <<Notification(<<65>>), Notification(<<66>>)>>

\* C8 (as stated): no key of a decoded mapping begins with, and no value
\* ends with, a whitespace or NUL character.
Padding == White_Space \cup {NUL}

SegmentsAreStripped ==
    (pc = "decoded") =>
        \A key \in DOMAIN record :
            /\ key # <<>> => key[1] \notin Padding
            /\ record[key] # <<>> =>
                   record[key][Len(record[key])] \notin Padding

\* C9: a complete non-empty block of NUL bytes only is decoded without
\* error to the empty mapping, sends nothing, and the machine goes on to
\* SkipAudio(metaint) within the same drain.
NulPaddingOnly ==
    [][ ( /\ pc = "drain"
          /\ state.tag = "CaptureMeta"
          /\ state.n > 0
          /\ Len(data) >= state.n
          /\ \A i \in 1..state.n : data[i] = NUL
          /\ task' # task ) =>
            /\ ndecode' = ndecode + 1
            /\ record' = <<>>
            /\ DOMAIN record' = {}
            /\ sent' = sent
            /\ result' = "none"
            /\ pc' = "drain"
            /\ state' = SkipAudio(metaint)
            /\ data' = SubSeq(data, state.n + 1, Len(data))
      ]_vars

\* A block of 16 NULs has just been decoded: nothing was sent.
NulPaddingOnlyWitness ==
    /\ state = SkipAudio(metaint)
    /\ Len(meta) = 16
    /\ \A i \in 1..Len(meta) : meta[i] = NUL
    /\ ndecode = 1
    /\ record = <<>>
    /\ sent = <<>>
    /\ result = "none"

\* C10: when the source ends while fewer bytes are buffered than the
\* current state needs, proc_notifier returns Ok, the state and the buffer
\* are left as they are, nothing is decoded or sent, and nothing happens
\* in proc_notifier afterwards.
EndMidStateIsOk ==
    [][ /\ ( /\ last' = "end"
             /\ last # "end"
             /\ Len(data) < bytes_to_consume(state) ) =>
               /\ pc = "await"
               /\ pc' = "done"
               /\ result' = "Ok"
               /\ UNCHANGED <<state, data, sent, ndecode, record, meta>>
        /\ (last = "end") => UNCHANGED <<task, delivered>>
      ]_vars

\* The source ended inside a metadata block: the part received is still
\* in the buffer and the outcome is Ok.
EndMidStateWitness ==
    /\ last = "end"
    /\ result = "Ok"
    /\ state.tag = "CaptureMeta"
    /\ data # <<>>
    /\ Len(data) < state.n

\* A pass of the inner loop of proc_notifier: one arm of the match ran.
DrainStepTaken ==
    /\ pc = "drain"
    /\ (state' # state \/ consumed' # consumed \/ result' # result)

\* C11: a pass of the drain loop that completes a non-empty metadata block
\* whose decoded map has the key StreamTitle sends exactly one message
\* "now playing: <value>" to #sleepyfm, <value> being the decoded value
\* unchanged (when the sender has lost its receiver the one send fails and
\* proc_notifier returns that error); a block without the key, an empty
\* block, the audio bytes, the length byte and every other step of the
\* program send nothing.
NotifiesExactlyOnTitle ==
    [][ IF DrainStepTaken /\ state.tag = "CaptureMeta" /\ state.n > 0
           /\ from_utf8(SubSeq(data, 1, state.n)).ok
           /\ StreamTitle \in DOMAIN
                  decode_meta(from_utf8(SubSeq(data, 1, state.n)).chars)
        THEN LET value == decode_meta(
                       from_utf8(SubSeq(data, 1, state.n)).chars)[StreamTitle]
             IN  IF sinkOpen
                 THEN sent' = Append(sent, [tgt |-> "#sleepyfm",
                                            msg |-> NowPlayingPrefix \o value])
                 ELSE sent' = sent /\ result' = "ErrSend"
        ELSE sent' = sent ]_vars

\* A block without StreamTitle, a block with the title A and an empty block
\* were completed, and the only message sent is "now playing: A".
NotifiesExactlyOnTitleWitness ==
    /\ pc = "await"
    /\ metaint > 0
    /\ delivered = Frame(metaint, UrlOnly) \o Frame(metaint, TitleA)
                       \o Frame(metaint, <<>>)
    /\ data = <<>>
    /\ ndecode = 2
    /\ sent = <<[tgt |-> "#sleepyfm", msg |-> NowPlayingPrefix \o <<65>>]>>

MainRunning == mainpc \in {"loop", "stats"}

Stopped == pc \in {"done", "cancelled"}

\* C12, as claimed: proc_notifier has stopped only if the byte source ended
\* or a transport or decode error occurred.  Violated: after main returned,
\* a send_privmsg error ends it, and the runtime shutdown drops it.
StopsOnlyOnEndOrError ==
    Stopped => result \in {"Ok", "ErrTransport", "ErrUtf8"}

\* C12, amended: proc_notifier has stopped only if the byte source ended, a
\* transport or decode error occurred, or main has returned (then a send
\* fails, or the runtime drops the task at its await).  While main runs,
\* whatever main does, the task is not stopped by it: waiting for a chunk it
\* can take the next one, and in the drain loop it can take its next step
\* (a complete block is there to be decoded, and the sender is usable).
StopsOnlyOnEndErrorOrMainReturn ==
    /\ Stopped => (result \in {"Ok", "ErrTransport", "ErrUtf8"} \/ ~MainRunning)
    /\ (result = "ErrSend" \/ pc = "cancelled") => (~MainRunning /\ ~sinkOpen)
    /\ (MainRunning /\ pc = "await") => ENABLED RecvChunk
    /\ (MainRunning /\ pc = "drain") =>
           \/ ENABLED (SkipAudioStep \/ MetaHeaderStep \/ DrainExit)
           \/ state.tag = "CaptureMeta" /\ Len(data) >= state.n /\ sinkOpen

\* main returned on a failed get_stats after one notification went out, and
\* the next notification failed: proc_notifier returned the send error.
StopsOnMainReturnWitness ==
    /\ mainpc = "failed"
    /\ pc = "done"
    /\ result = "ErrSend"
    /\ Len(sent) = 1
    /\ replies = <<>>

\* C13: once proc_notifier has returned (end of stream or error) it stays
\* returned, with the same outcome and nothing further consumed or sent: it
\* is not restarted.  Its return changes nothing of main: main stays where
\* it is in its loop, the sender stays usable, and main can still take a
\* stats query and send its reply.
TerminationLeavesMainRunning ==
    /\ [](Terminated =>
            /\ (mainpc = "stats" => (sinkOpen /\ ENABLED MainStatsReply))
            /\ (mainpc = "loop" /\ Len(replies) < MaxReplies) =>
                   ENABLED MainStatsQuery)
    /\ [][ /\ Terminated =>
                 /\ pc' = "done"
                 /\ <<result, state, data, sent, rest, delivered, consumed>>'
                      = <<result, state, data, sent, rest, delivered, consumed>>
           /\ (~Terminated /\ pc' = "done") =>
                 <<mainpc, sinkOpen, replies>>' = <<mainpc, sinkOpen, replies>>
         ]_vars

\* proc_notifier returned a decode error, and afterwards main answered a
\* stats query and is back in its loop.
TerminationLeavesMainRunningWitness ==
    /\ pc = "done"
    /\ result = "ErrUtf8"
    /\ replies = <<"done">>
    /\ mainpc = "loop"
    /\ sinkOpen

\* The well-formed segments of a text, in order: split at "';", stripped,
\* the empty ones and those without "='" left out.
WellFormed(text) ==
    SelectSeq([i \in 1..Len(split(text, FieldDelim)) |->
                  TrimSegment(split(text, FieldDelim)[i])], KeepSegment)

\* C14: the decoded mapping has one entry per key of the well-formed
\* segments of the block, and the entry of a key is the value of the last
\* segment with that key: "StreamTitle='A';StreamTitle='B';" decodes to
\* {StreamTitle: "B"}.
LastOccurrenceWins ==
    (pc = "decoded") =>
        LET segs == WellFormed(meta)
        IN  /\ DOMAIN record = {KeyValue(segs[i]).k : i \in 1..Len(segs)}
            /\ \A i \in 1..Len(segs) :
                   (\A j \in (i + 1)..Len(segs) :
                        KeyValue(segs[j]).k # KeyValue(segs[i]).k)
                   => record[KeyValue(segs[i]).k] = KeyValue(segs[i]).v
            /\ (meta = TitleA \o TitleB) => record = (StreamTitle :> <<66>>)
            /\ (meta = RepeatedKey) => record = (<<107>> :> <<107, 107>>)

\* "StreamTitle='B';StreamUrl='u';StreamTitle='A';" was decoded: the title
\* is the last one, A.
LastOccurrenceWinsWitness ==
    /\ pc = "decoded"
    /\ meta = TitleB \o UrlOnly \o TitleA
    /\ record = (StreamTitle :> <<65>>) @@ (StreamUrl :> <<117>>)

Suspended == pc = "await" \/ (pc = "done" /\ result = "Ok")

\* C15, as claimed: whenever proc_notifier waits for the next chunk, and
\* when the stream has ended, the buffer is shorter than what the current
\* state needs.  Violated at the first await when metaint = 0: the state is
\* SkipAudio(0), the buffer is empty and 0 >= 0.
DrainedAtEveryAwait ==
    Suspended => Len(data) < bytes_to_consume(state)

\* C15, amended: once a chunk has arrived (and from the start when
\* metaint > 0), whenever proc_notifier waits for the next chunk, and when
\* the stream has ended, the buffer is shorter than what the current state
\* needs; every return from the drain loop to the await leaves it so.  Hence
\* at each await after a chunk, the state, the buffer and the messages sent
\* are those of the drain loop run to its end on all the bytes received: a
\* chunk holding several complete cycles has had all their notifications
\* sent before the next chunk is read.
DrainedAfterEveryChunk ==
    /\ []((Suspended /\ (metaint > 0 \/ last = "chunk")) =>
              Len(data) < bytes_to_consume(state))
    /\ []((pc = "await" /\ last = "chunk") =>
              LET one == SingleChunk(metaint, delivered)
              IN  <<state, data, sent>> = <<one.state, one.data, one.sent>>)
    /\ [][ (pc = "drain" /\ pc' = "await") =>
               Len(data') < bytes_to_consume(state') ]_vars

\* The two cycles A, B arrived as one single chunk, and both notifications
\* are out when proc_notifier waits for the next chunk.
DrainedAfterEveryChunkWitness ==
    /\ pc = "await"
    /\ last = "chunk"
    /\ delivered = Frame(metaint, TitleA) \o Frame(metaint, TitleB)
    /\ biggest = Len(delivered)
    /\ Len(sent) = 2
    /\ data = <<>>

\* C16: the state starts as SkipAudio(metaint) and changes only along
\* SkipAudio(n) -> MetaHeader -> CaptureMeta(16 * b) -> SkipAudio(metaint),
\* b being the byte at the head of the buffer in MetaHeader; a SkipAudio
\* state always carries metaint, a CaptureMeta state a multiple of 16 in
\* 0..4080, and metaint never changes.
StateFollowsCycle ==
    /\ []( /\ state.tag \in {"SkipAudio", "MetaHeader", "CaptureMeta"}
           /\ (state.tag = "SkipAudio") => state.n = metaint
           /\ (state.tag = "CaptureMeta") =>
                  (state.n \in 0..4080 /\ state.n % 16 = 0)
           /\ (last = "none") => state = [tag |-> "SkipAudio", n |-> metaint] )
    /\ [][ /\ metaint' = metaint
           /\ (state' # state) =>
                 \/ /\ state.tag = "SkipAudio"
                    /\ state' = [tag |-> "MetaHeader"]
                 \/ /\ state.tag = "MetaHeader"
                    /\ data # <<>>
                    /\ state' = [tag |-> "CaptureMeta", n |-> 16 * data[1]]
                 \/ /\ state.tag = "CaptureMeta"
                    /\ state' = [tag |-> "SkipAudio", n |-> metaint]
         ]_vars

\* Three full cycles were made, with the length bytes 1, 1 and 0, and the
\* state is SkipAudio(metaint) again.
StateFollowsCycleWitness ==
    /\ pc = "await"
    /\ metaint > 0
    /\ markers = <<1, 1, 0>>
    /\ state = [tag |-> "SkipAudio", n |-> metaint]
    /\ Len(consumed) = 3 * metaint + 35

\* The stream s with every audio byte replaced by 0: from offset o, the
\* m audio bytes, then the length byte b and the 16 * b metadata bytes kept
\* as they are, and so on.
RECURSIVE MaskFrom(_, _, _)
MaskFrom(m, s, o) ==
    IF Len(s) <= o THEN <<>>
    ELSE IF Len(s) <= o + m THEN [i \in 1..(Len(s) - o) |-> 0]
    ELSE [i \in 1..m |-> 0]
         \o SubSeq(s, o + m + 1, Min({Len(s), o + m + 1 + 16 * s[o + m + 1]}))
         \o MaskFrom(m, s, o + m + 1 + 16 * s[o + m + 1])

Masked(m, s) == MaskFrom(m, s, 0)

\* C17: the audio bytes are not looked at.  Whenever proc_notifier waits
\* for a chunk or has returned (for metaint = 0, where there is no audio
\* byte, once it has left the initial SkipAudio(0)), its state, the length of its buffer, the
\* messages it sent and its outcome are those of the drain loop run on the
\* bytes received with every audio byte replaced by 0 (a failed send leaves
\* a prefix of those messages): two streams that differ in audio bytes only
\* give the same states, messages and outcome.
AudioIsNotInterpreted ==
    (pc \in {"await", "done"} /\ (metaint > 0 \/ state.tag # "SkipAudio")) =>
        LET one == SingleChunk(metaint, Masked(metaint, delivered))
        IN  IF result = "ErrSend"
            THEN IsPrefix(sent, one.sent) /\ Len(sent) < Len(one.sent)
            ELSE /\ state = one.state
                 /\ Len(data) = Len(one.data)
                 /\ sent = one.sent
                 /\ (result = "ErrUtf8") <=> (one.result = "ErrUtf8")

\* The stream whose audio bytes are 1 and the quote has been received to
\* its end, and the messages are those of the stream with 0xFF audio.
AudioIsNotInterpretedWitness ==
    /\ pc = "done"
    /\ result = "Ok"
    /\ metaint > 0
    /\ delivered = OtherAudio(metaint)
    /\ sent = SingleChunk(metaint, Frame(metaint, TitleA)
                                      \o Frame(metaint, TitleB)).sent
    /\ Len(sent) = 2

\* The number of bytes an arm of the match removes (main.rs:97, 102, 106).
Removes(s) == IF s.tag = "MetaHeader" THEN 1 ELSE s.n

\* C18: whenever an arm of the match runs, the buffer holds at least the
\* bytes the arm removes (n for SkipAudio(n) and CaptureMeta(n), 1 for
\* MetaHeader), the bytes removed are the first ones of the buffer, the
\* rest stays in order, and their number is bytes_to_consume().
NeverReadsPastBuffer ==
    [][ DrainStepTaken =>
           /\ Len(data) >= Removes(state)
           /\ Removes(state) = bytes_to_consume(state)
           /\ consumed' = consumed \o SubSeq(data, 1, Removes(state))
           /\ data' = SubSeq(data, Removes(state) + 1, Len(data))
           /\ Len(data') = Len(data) - Removes(state)
      ]_vars

\* The block of length byte 255 was drained whole: its 4080 bytes are
\* consumed and the buffer is empty.
NeverReadsPastBufferWitness ==
    /\ pc = "drain"
    /\ markers = <<255>>
    /\ state = [tag |-> "SkipAudio", n |-> metaint]
    /\ data = <<>>
    /\ Len(consumed) = metaint + 1 + 4080
    /\ metaint > 0

\* A state whose arm removes no byte: SkipAudio(0) or CaptureMeta(0).
ZeroByteState(s) == s.tag # "MetaHeader" /\ s.n = 0

\* C19, the reason as claimed: a zero-byte transition is never followed by
\* another zero-byte transition without a MetaHeader in between.  Violated
\* for metaint = 0: after a length byte 0 the CaptureMeta(0) arm leads to
\* SkipAudio(0), whose arm runs next.
ZeroByteStepsNeverAdjacent ==
    [][ (DrainStepTaken /\ ZeroByteState(state) /\ state' # state) =>
            ~ZeroByteState(state') ]_vars

\* The measure that decreases on every pass of the inner loop; it is a
\* natural number, so the passes made on one buffer are finitely many.
Rank(d, s) ==
    3 * Len(d) + (IF s.tag = "CaptureMeta" THEN 2
                  ELSE IF s.tag = "SkipAudio" THEN 1 ELSE 0)

\* C19, amended: the inner loop ends for every buffer and every metaint,
\* metaint = 0 and runs of length bytes 0 included: each pass either
\* returns from proc_notifier or lowers Rank, because the MetaHeader arm
\* removes one byte, the SkipAudio arm leads to MetaHeader, and the
\* CaptureMeta arm leads to SkipAudio; so at most two zero-byte
\* transitions, CaptureMeta(0) then SkipAudio(0), come between two
\* MetaHeader passes.
DrainLoopTerminates ==
    [][ DrainStepTaken =>
          /\ pc' = "done" \/ Rank(data', state') < Rank(data, state)
          /\ (state.tag = "MetaHeader") => Len(data') = Len(data) - 1
          /\ (state.tag = "SkipAudio") => state'.tag = "MetaHeader"
          /\ (state.tag = "CaptureMeta" /\ pc' # "done") =>
                 state'.tag = "SkipAudio"
      ]_vars

\* With metaint = 0, the length bytes 0, 0, 1 arrived with the whole stream
\* as one chunk: the loop went through the zero-byte arms and ended.
DrainLoopTerminatesWitness ==
    /\ pc = "await"
    /\ metaint = 0
    /\ markers = <<0, 0, 1>>
    /\ biggest = Len(delivered)
    /\ biggest > 0
    /\ Len(sent) = 1

RECURSIVE Sum(_)
Sum(s) == IF s = <<>> THEN 0 ELSE Head(s) + Sum(Tail(s))

\* Offset, counted from 0, of the k-th length byte in the stream, given the
\* length bytes before it.
MarkerOffset(m, k, before) == k * m + (k - 1) + 16 * Sum(before)

\* C20: in every state the bytes consumed so far followed by the buffer
\* are the chunks received so far put end to end, and the k-th length byte
\* read is the byte of the stream at offset
\* k * metaint + (k - 1) + 16 * (sum of the k - 1 length bytes before it).
BytesConservedInOrder ==
    /\ consumed \o data = delivered
    /\ \A k \in 1..Len(markers) :
           LET o == MarkerOffset(metaint, k, SubSeq(markers, 1, k - 1))
           IN  o < Len(delivered) /\ markers[k] = delivered[o + 1]

\* Three length bytes were read from a stream that arrived in chunks of one
\* byte, and part of the next frame is in the buffer.
BytesConservedInOrderWitness ==
    /\ Len(markers) = 3
    /\ biggest = 1
    /\ metaint = 2
    /\ pc = "await"
    /\ Len(data) = 1
    /\ Len(consumed) = Len(delivered) - 1

====
